---- MODULE Spec2Model ----
(***************************************************************************)
(* Stage pipeline and job executor of waddle-api (app/v1/router.py,        *)
(* app/models.py).  The store (Episode rows, ProcessingJob rows), the      *)
(* per-episode directory trees, the background tasks handed to             *)
(* BackgroundTasks and the response of the last request are the state.     *)
(* Request handlers are one action each; a background execution is two     *)
(* actions, split at its try block (the adapter call), and so is the       *)
(* metadata request, whose adapter call runs on the request path.          *)
(* The pure functions of app/v1/utils.py (upload validation, combined-file *)
(* resolution) are run on their own under SpecValidate and SpecCombined.   *)
(* SpecRead adds the artifact routes to the pipeline, SpecExport runs      *)
(* export executions side by side from the state metadata generation       *)
(* leaves, SpecList runs the episode listing, SpecDelete runs episodes     *)
(* side by side up to their deletion, SpecCopies runs the copies of the    *)
(* combined-file loop that router.py holds against the one of utils.py.    *)
(***************************************************************************)
EXTENDS Integers, Sequences, FiniteSets, TLC

\* ---------------------------------------------------------------- bounds
\* Rows ever inserted into the Episode and ProcessingJob tables together.
MaxRows == 5
\* Episodes ever created (uuids generated).
MaxEpisodes == 1
\* Metadata requests of one episode inside generate_metadata at a time.
MaxMetaInFlight == 1

\* ------------------------------------------------------------ data model
JobStatus == {"init", "pending", "processing", "completed", "failed"}

JobType == <<"preprocess", "edit", "postprocess", "metadata", "export">>

JobTypes == {JobType[i] : i \in 1..Len(JobType)}

Terminal == {"completed", "failed"}

None == "None"

EpisodeIds == 1..(MaxEpisodes + 1)

\* The Episode column that holds the status of stage t.
StatusField(t) ==
    CASE t = "preprocess" -> "preprocess_status"
      [] t = "edit" -> "edit_status"
      [] t = "postprocess" -> "postprocess_status"
      [] t = "metadata" -> "metadata_generation_status"
      [] t = "export" -> "export_status"

\* Episode(...): every status defaults to init, editor_state and title to "".
Episode ==
    [preprocess_status |-> "init", edit_status |-> "init",
     postprocess_status |-> "init", metadata_generation_status |-> "init",
     export_status |-> "init", editor_state |-> "", title |-> ""]

\* ProcessingJob(episode_id=..., type=..., status=pending); error_message None.
ProcessingJob(e, t) ==
    [episode_id |-> e, type |-> t, status |-> "pending", error_message |-> None]

VARIABLES
    episodes,   \* Episode table: uuid -> row (the domain is the set of rows)
    nextId,     \* number of uuids generated so far
    jobs,       \* ProcessingJob table: sequence of rows, id = index
    tasks,      \* background tasks: job id -> [pc]
    dirs,       \* episode directory trees: uuid -> set of paths in the tree
    metaReqs,   \* uuid -> number of metadata requests inside generate_metadata
    srt,        \* uuid -> text of the combined transcript in postprocessed/
    ev,         \* response of the request handled by the last step, or NoEv
    call        \* frame of the app/v1/utils.py function being evaluated, or NoCall

vars == <<episodes, nextId, jobs, tasks, dirs, metaReqs, srt, ev, call>>

store == <<episodes, jobs, tasks, dirs, metaReqs, srt>>

NoEv == [kind |-> "none", ep |-> 0, stage |-> "none", code |-> 0, reason |-> "none"]

\* No utils.py function is being evaluated (the router calls none of them).
NoCall == [fn |-> "none"]

Resp(kind, e, t, code, reason) ==
    [kind |-> kind, ep |-> e, stage |-> t, code |-> code, reason |-> reason]

\* ---------------------------------------------------------------- helpers
\* Rows inserted so far (uuids generated plus job ids assigned).
Rows == nextId + Len(jobs)

\* The ids a request can name: every uuid generated so far (its row may have
\* been deleted since) and one uuid that was never generated.
RequestIds == 1..(nextId + 1)

Without(f, x) == [y \in DOMAIN f \ {x} |-> f[y]]

With(f, x, v) == [y \in DOMAIN f \cup {x} |-> IF y = x THEN v ELSE f[y]]

Tree(d, e) == IF e \in DOMAIN d THEN d[e] ELSE {}

\* session.get(Episode, id) / _get_episode_or_404
EpisodeFound(e) == e \in DOMAIN episodes

\* GateField with the postprocess trigger gated on preprocessing instead of
\* editing (the wrong _check_*_or_400 helper called).
GateField_wrongHelper(t) ==
    CASE t = "edit" -> "preprocess_status"
      [] t = "postprocess" -> "preprocess_status"
      [] t = "metadata" -> "postprocess_status"
      [] t = "export" -> "metadata_generation_status"

\* The _check_*_or_400 helper each trigger handler calls: the column it reads.
GateField(t) ==
    CASE t = "edit" -> "preprocess_status"
      [] t = "postprocess" -> "edit_status"
      [] t = "metadata" -> "postprocess_status"
      [] t = "export" -> "metadata_generation_status"

\* status_code of the three job-creating trigger routes.
AcceptCode(t) == IF t = "edit" THEN 200 ELSE 202

\* What the stage's processing call leaves in the tree when it returns
\* normally; the calls are opaque (waddle.*), so a call may return without
\* the artifact the next stage looks for.
AdapterOutputs(t) ==
    CASE t = "preprocess" -> {{"preprocessed/wav", "preprocessed/srt"}, {"preprocessed/srt"}}
      [] t = "edit" -> {{"edited-combined.wav"}}
      [] t = "postprocess" -> {{"postprocessed/wav", "postprocessed/srt"}, {"postprocessed/wav"}}
      [] t = "metadata" -> {{"metadata/chapters.txt", "metadata/show_notes.md", "metadata/wav"}}
      [] t = "export" -> {{"export/zip"}}

Raise == {"raise"}

Outcomes(t) == AdapterOutputs(t) \cup {Raise}

\* Every response leaves before the next step is taken (see Deliver).
Idle == ev = NoEv

\* ------------------------------------------------------------------- Init
Init ==
    /\ episodes = <<>>
    /\ nextId = 0
    /\ jobs = <<>>
    /\ tasks = <<>>
    /\ dirs = <<>>
    /\ metaReqs = [e \in EpisodeIds |-> 0]
    /\ srt = [e \in EpisodeIds |-> <<>>]
    /\ ev = NoEv
    /\ call = NoCall

\* ----------------------------------------------------- episode operations
\* Upload shapes a create request can carry: every file named, or a file
\* with no file name.
Uploads == {"named", "noname"}

\* Values of the title form field and of UpdateEpisodeRequest.title.
Titles == {"", "T"}

\* Values of UpdateEpisodeRequest.editor_state.
EditorStates == {"", "S"}

\* add_task(run_..., job.id, episode_id, session=session): the task as it is
\* scheduled.  The session it will work on is the one the request got from
\* get_session (SessionDep); closed says whether the executor has called
\* session.close() on it; title is episode.title as the executor's session
\* holds it while the executor runs (None outside).
Task == [pc |-> "scheduled", session |-> "request", closed |-> FALSE, title |-> None]

\* create_episode with the add_task call left out.
create_episode_noTask(up, title) ==
    /\ Idle
    /\ UNCHANGED <<call, srt>>
    /\ LET e == nextId + 1
           row == [Episode EXCEPT !.preprocess_status = "pending", !.title = title]
       IN /\ nextId' = e
          /\ episodes' = With(episodes, e, row)
          /\ IF up = "named"
             THEN /\ dirs' = With(dirs, e, {"source/", "source/files"})
                  /\ jobs' = Append(jobs, ProcessingJob(e, "preprocess"))
                  /\ ev' = Resp("create", e, "preprocess", 201, "created")
                  /\ UNCHANGED tasks
             ELSE /\ dirs' = With(dirs, e, {"source/"})
                  /\ ev' = Resp("create", e, "preprocess", 500, "no_file_name")
                  /\ UNCHANGED <<jobs, tasks>>
    /\ UNCHANGED metaReqs

\* create_episode: the Episode row is committed and the directories made
\* before the files are looked at; a file without a name raises inside the
\* try block and leaves through `except Exception` as a 500.
create_episode(up, title) ==
    /\ Idle
    /\ UNCHANGED <<call, srt>>
    /\ LET e == nextId + 1
           row == [Episode EXCEPT !.preprocess_status = "pending", !.title = title]
       IN /\ nextId' = e
          /\ episodes' = With(episodes, e, row)
          /\ IF up = "named"
             THEN /\ dirs' = With(dirs, e, {"source/", "source/files"})
                  /\ jobs' = Append(jobs, ProcessingJob(e, "preprocess"))
                  /\ tasks' = With(tasks, Len(jobs) + 1, Task)
                  /\ ev' = Resp("create", e, "preprocess", 201, "created")
             ELSE /\ dirs' = With(dirs, e, {"source/"})
                  /\ ev' = Resp("create", e, "preprocess", 500, "no_file_name")
                  /\ UNCHANGED <<jobs, tasks>>
    /\ UNCHANGED metaReqs

\* get_episode: the row, or 404.
get_episode(e) ==
    /\ Idle
    /\ UNCHANGED <<call, srt>>
    /\ ev' = IF EpisodeFound(e)
             THEN Resp("get", e, "none", 200, "ok")
             ELSE Resp("get", e, "none", 404, "episode_not_found")
    /\ UNCHANGED <<episodes, nextId, jobs, tasks, dirs, metaReqs>>

\* UpdatedRow with both fields assigned whatever the request supplies.
UpdatedRow_assignBoth(row, title, editor_state) ==
    [row EXCEPT !.title = IF title # None THEN title ELSE "",
                !.editor_state = IF editor_state # None THEN editor_state ELSE ""]

\* The row as update_episode leaves it: a field is assigned when the request
\* supplies it (is not None).
UpdatedRow(row, title, editor_state) ==
    [row EXCEPT !.title = IF title # None THEN title ELSE @,
                !.editor_state = IF editor_state # None THEN editor_state ELSE @]

\* update_episode: 404, or the supplied fields assigned and committed.
update_episode(e, title, editor_state) ==
    /\ Idle
    /\ UNCHANGED <<call, srt>>
    /\ IF ~EpisodeFound(e)
       THEN /\ ev' = Resp("update", e, "none", 404, "episode_not_found")
            /\ UNCHANGED episodes
       ELSE /\ episodes' = [episodes EXCEPT ![e] = UpdatedRow(@, title, editor_state)]
            /\ ev' = Resp("update", e, "none", 200, "ok")
    /\ UNCHANGED <<nextId, jobs, tasks, dirs, metaReqs>>

\* delete_episode with the rmtree left out.
delete_episode_keepTree(e) ==
    /\ Idle
    /\ UNCHANGED <<call, srt>>
    /\ IF ~EpisodeFound(e)
       THEN /\ ev' = Resp("delete", e, "none", 404, "episode_not_found")
            /\ UNCHANGED episodes
       ELSE /\ episodes' = Without(episodes, e)
            /\ ev' = Resp("delete", e, "none", 204, "deleted")
    /\ UNCHANGED <<nextId, jobs, tasks, dirs, metaReqs>>

\* delete_episode with rmtree run on the directory that holds every episode's
\* tree.
delete_episode_allTrees(e) ==
    /\ Idle
    /\ UNCHANGED call
    /\ IF ~EpisodeFound(e)
       THEN /\ ev' = Resp("delete", e, "none", 404, "episode_not_found")
            /\ UNCHANGED <<episodes, dirs, srt>>
       ELSE /\ episodes' = Without(episodes, e)
            /\ dirs' = <<>>
            /\ srt' = [srt EXCEPT ![e] = <<>>]
            /\ ev' = Resp("delete", e, "none", 204, "deleted")
    /\ UNCHANGED <<nextId, jobs, tasks, metaReqs>>

\* delete_episode: row first, then the directory tree if it exists.
delete_episode(e) ==
    /\ Idle
    /\ UNCHANGED call
    /\ IF ~EpisodeFound(e)
       THEN /\ ev' = Resp("delete", e, "none", 404, "episode_not_found")
            /\ UNCHANGED <<episodes, dirs, srt>>
       ELSE /\ episodes' = Without(episodes, e)
            /\ dirs' = Without(dirs, e)
            /\ srt' = [srt EXCEPT ![e] = <<>>]
            /\ ev' = Resp("delete", e, "none", 204, "deleted")
    /\ UNCHANGED <<nextId, jobs, tasks, metaReqs>>

\* ------------------------------------------------------- stage triggers
\* TriggerReject with the job row added and committed before the check raises.
TriggerReject_jobFirst(e, t, code, reason) ==
    /\ jobs' = Append(jobs, ProcessingJob(e, t))
    /\ ev' = Resp("trigger", e, t, code, reason)
    /\ UNCHANGED <<episodes, nextId, tasks, dirs, metaReqs>>

\* A trigger that raises HTTPException before touching the session.
TriggerReject(e, t, code, reason) ==
    /\ ev' = Resp("trigger", e, t, code, reason)
    /\ UNCHANGED <<episodes, nextId, jobs, tasks, dirs, metaReqs>>

\* What an accepted trigger writes: the job row (pending), the stage status
\* (pending) and the background task.
TriggerAccept(e, t) ==
    /\ jobs' = Append(jobs, ProcessingJob(e, t))
    /\ episodes' = [episodes EXCEPT ![e][StatusField(t)] = "pending"]
    /\ tasks' = With(tasks, Len(jobs) + 1, Task)
    /\ ev' = Resp("trigger", e, t, AcceptCode(t), "accepted")
    /\ UNCHANGED <<nextId, dirs, metaReqs>>

\* The body shared by apply_audio_edits, initiate_postprocess and
\* initiate_export: lookup, gate, then job row, stage status and task.
Trigger(e, t) ==
    /\ Idle
    /\ UNCHANGED <<call, srt>>
    /\ IF ~EpisodeFound(e)
       THEN TriggerReject(e, t, 404, "episode_not_found")
       ELSE IF episodes[e][GateField(t)] # "completed"
            THEN TriggerReject(e, t, 400, "precondition")
            ELSE TriggerAccept(e, t)

apply_audio_edits(e) == Trigger(e, "edit")

initiate_postprocess(e) == Trigger(e, "postprocess")

initiate_export(e) == Trigger(e, "export")

\* generate_episode_metadata up to the generate_metadata call: the status is
\* committed as processing, the metadata directory is made, and the combined
\* transcript is looked up (404 when postprocessed/ holds no .srt).  No
\* ProcessingJob row is written and no background task is added.
generate_episode_metadata(e) ==
    /\ Idle
    /\ UNCHANGED <<call, srt>>
    /\ IF ~EpisodeFound(e)
       THEN TriggerReject(e, "metadata", 404, "episode_not_found")
       ELSE IF episodes[e][GateField("metadata")] # "completed"
            THEN TriggerReject(e, "metadata", 400, "precondition")
            ELSE /\ episodes' = [episodes EXCEPT ![e].metadata_generation_status = "processing"]
                 /\ dirs' = With(dirs, e, Tree(dirs, e) \cup {"metadata/"})
                 /\ IF "postprocessed/srt" \notin Tree(dirs, e)
                    THEN /\ ev' = Resp("trigger", e, "metadata", 404, "srt_not_found")
                         /\ UNCHANGED metaReqs
                    ELSE /\ metaReqs[e] < MaxMetaInFlight
                         /\ metaReqs' = [metaReqs EXCEPT ![e] = @ + 1]
                         /\ ev' = NoEv
                 /\ UNCHANGED <<nextId, jobs, tasks>>

\* The status generate_episode_metadata commits in its finally block.
MetaTerminal(out) == IF out = Raise THEN "failed" ELSE "completed"

\* generate_episode_metadata from the generate_metadata call on.  The commit
\* in the finally block updates a row that a delete may have removed in the
\* meantime; the session then raises (StaleDataError) and the request ends
\* as a 500.
generate_episode_metadata_finish(e, out) ==
    /\ Idle
    /\ UNCHANGED <<call, srt>>
    /\ metaReqs[e] > 0
    /\ metaReqs' = [metaReqs EXCEPT ![e] = @ - 1]
    /\ IF ~EpisodeFound(e)
       THEN /\ ev' = Resp("trigger", e, "metadata", 500, "stale_row")
            /\ UNCHANGED <<episodes, dirs>>
       ELSE /\ episodes' = [episodes EXCEPT ![e].metadata_generation_status = MetaTerminal(out)]
            /\ IF out = Raise
               THEN /\ ev' = Resp("trigger", e, "metadata", 500, "adapter_failure")
                    /\ UNCHANGED dirs
               ELSE /\ ev' = Resp("trigger", e, "metadata", 202, "accepted")
                    /\ dirs' = With(dirs, e, Tree(dirs, e) \cup out)
    /\ UNCHANGED <<nextId, jobs, tasks>>

\* ---------------------------------------------------------- job executor
\* BeginCommit with the job row's status assignment left out.
BeginCommit_episodeOnly(j, e, t) ==
    /\ episodes' = [episodes EXCEPT ![e][StatusField(t)] = "processing"]
    /\ UNCHANGED jobs

\* The two assignments and the commit that precede the try block.
BeginCommit(j, e, t) ==
    /\ episodes' = [episodes EXCEPT ![e][StatusField(t)] = "processing"]
    /\ jobs' = [jobs EXCEPT ![j].status = "processing"]

\* session.refresh(episode): episode.title as the executor's session holds
\* it from here on.  Only run_export reads it.
SessionTitle(e, t) == IF t = "export" THEN episodes[e].title ELSE None

\* ExecBegin with only the job row looked up: a missing episode row does not
\* end the task, the job is set to processing and the try block is entered.
ExecBegin_noEpisodeCheck(j) ==
    /\ Idle
    /\ UNCHANGED <<call, srt>>
    /\ j \in DOMAIN tasks
    /\ tasks[j].pc = "scheduled"
    /\ LET e == jobs[j].episode_id
           t == jobs[j].type
       IN IF ~EpisodeFound(e)
          THEN /\ jobs' = [jobs EXCEPT ![j].status = "processing"]
               /\ UNCHANGED episodes
          ELSE BeginCommit(j, e, t)
    /\ tasks' = [tasks EXCEPT ![j].pc = "adapter",
                              ![j].title = IF EpisodeFound(jobs[j].episode_id)
                                           THEN SessionTitle(jobs[j].episode_id, jobs[j].type)
                                           ELSE ""]
    /\ ev' = NoEv
    /\ UNCHANGED <<nextId, dirs, metaReqs>>

\* run_preprocessing, run_editing, run_postprocessing, run_export up to the
\* try block: both rows are looked up (a missing row ends the task, the
\* session left as it is), the job and the stage status are set to
\* processing and committed, and the session's copy of the Episode row is
\* refreshed.
ExecBegin(j) ==
    /\ Idle
    /\ UNCHANGED <<call, srt>>
    /\ j \in DOMAIN tasks
    /\ tasks[j].pc = "scheduled"
    /\ LET e == jobs[j].episode_id
           t == jobs[j].type
       IN IF ~EpisodeFound(e)
          THEN /\ tasks' = [tasks EXCEPT ![j].pc = "noop"]
               /\ UNCHANGED <<episodes, jobs>>
          ELSE /\ BeginCommit(j, e, t)
               /\ tasks' = [tasks EXCEPT ![j].pc = "adapter", ![j].title = SessionTitle(e, t)]
    /\ ev' = NoEv
    /\ UNCHANGED <<nextId, dirs, metaReqs>>

\* The archives export/ can hold, one per title.
ZipPaths == {"export/episode.zip", "export/T.zip"}

\* export_dir / f"{episode.title or 'episode'}.zip"
ZipPath(title) ==
    LET stem == IF title = "" THEN "episode" ELSE title
    IN CASE stem = "episode" -> "export/episode.zip"
         [] stem = "T" -> "export/T.zip"

\* TryBlock with the test for an empty edited/ left out of run_editing: the
\* combine call is made on whatever the glob gave.
TryBlock_noAudioCheck(t, tree, out, title) ==
    CASE t = "preprocess" ->
           IF out = Raise
           THEN [ok |-> FALSE, msg |-> "adapter error", files |-> tree, called |-> TRUE]
           ELSE [ok |-> TRUE, msg |-> None, files |-> tree \cup {"preprocessed/"} \cup out,
                 called |-> TRUE]
      [] t = "edit" ->
           LET copied == tree \cup {"edited/"} \cup
                         (IF "preprocessed/wav" \in tree THEN {"edited/wav"} ELSE {})
           IN IF out = Raise
              THEN [ok |-> FALSE, msg |-> "adapter error", files |-> copied, called |-> TRUE]
              ELSE [ok |-> TRUE, msg |-> None, files |-> copied \cup out, called |-> TRUE]
      [] t = "postprocess" ->
           IF out = Raise
           THEN [ok |-> FALSE, msg |-> "adapter error", files |-> tree \cup {"postprocessed/"},
                 called |-> TRUE]
           ELSE [ok |-> TRUE, msg |-> None, files |-> tree \cup {"postprocessed/"} \cup out,
                 called |-> TRUE]
      [] t = "export" ->
           LET zip_path == ZipPath(title)
           IN IF out = Raise
              THEN [ok |-> FALSE, msg |-> "io error", files |-> tree, called |-> TRUE]
              ELSE IF "postprocessed/srt" \notin tree
                   THEN [ok |-> FALSE, msg |-> "404: SRT file not found",
                         files |-> tree \cup {zip_path}, called |-> TRUE]
                   ELSE [ok |-> TRUE, msg |-> None, files |-> tree \cup {zip_path},
                         called |-> TRUE]

\* The try block of stage t on tree `tree`, its processing call ending as
\* `out`, title being episode.title in the executor's session: [ok, msg,
\* files, called], files being the tree it leaves and called whether the
\* stage's processing call (for export: the writing of the archive) was made.
\*   edit: mkdir edited/, copy preprocessed/*.wav, raise when edited/ holds
\*         no .wav, else combine_audio_files;
\*   postprocess: mkdir postprocessed/, postprocess_multi_files;
\*   export: what follows the mkdir (see ExecClear): the zip is opened at
\*         zip_path and written, the combined transcript lookup raising
\*         when postprocessed/ holds no .srt.
TryBlock(t, tree, out, title) ==
    CASE t = "preprocess" ->
           IF out = Raise
           THEN [ok |-> FALSE, msg |-> "adapter error", files |-> tree, called |-> TRUE]
           ELSE [ok |-> TRUE, msg |-> None, files |-> tree \cup {"preprocessed/"} \cup out,
                 called |-> TRUE]
      [] t = "edit" ->
           LET copied == tree \cup {"edited/"} \cup
                         (IF "preprocessed/wav" \in tree THEN {"edited/wav"} ELSE {})
           IN IF "edited/wav" \notin copied
              THEN [ok |-> FALSE, msg |-> "No audio files found", files |-> copied,
                    called |-> FALSE]
              ELSE IF out = Raise
                   THEN [ok |-> FALSE, msg |-> "adapter error", files |-> copied, called |-> TRUE]
                   ELSE [ok |-> TRUE, msg |-> None, files |-> copied \cup out, called |-> TRUE]
      [] t = "postprocess" ->
           IF out = Raise
           THEN [ok |-> FALSE, msg |-> "adapter error", files |-> tree \cup {"postprocessed/"},
                 called |-> TRUE]
           ELSE [ok |-> TRUE, msg |-> None, files |-> tree \cup {"postprocessed/"} \cup out,
                 called |-> TRUE]
      [] t = "export" ->
           LET zip_path == ZipPath(title)
           IN IF out = Raise
              THEN [ok |-> FALSE, msg |-> "io error", files |-> tree, called |-> TRUE]
              ELSE IF "postprocessed/srt" \notin tree
                   THEN [ok |-> FALSE, msg |-> "404: SRT file not found",
                         files |-> tree \cup {zip_path}, called |-> TRUE]
                   ELSE [ok |-> TRUE, msg |-> None, files |-> tree \cup {zip_path},
                         called |-> TRUE]

\* run_export from the start of its try block to the mkdir: export/ is
\* removed with everything in it when it exists, and made again.
ExecClear(j) ==
    /\ Idle
    /\ UNCHANGED <<call, srt>>
    /\ j \in DOMAIN tasks
    /\ tasks[j].pc = "adapter"
    /\ jobs[j].type = "export"
    /\ LET e == jobs[j].episode_id
       IN dirs' = With(dirs, e, (Tree(dirs, e) \ ZipPaths) \cup {"export/"})
    /\ tasks' = [tasks EXCEPT ![j].pc = "writing"]
    /\ ev' = NoEv
    /\ UNCHANGED <<episodes, nextId, jobs, metaReqs>>

\* JobOutcome with the except branch recording the message only.
JobOutcome_noFailed(job, r) ==
    IF r.ok
    THEN [job EXCEPT !.status = "completed"]
    ELSE [job EXCEPT !.error_message = r.msg]

\* JobOutcome with a failed job put back to pending for another attempt.
JobOutcome_requeue(job, r) ==
    IF r.ok
    THEN [job EXCEPT !.status = "completed"]
    ELSE [job EXCEPT !.status = "pending", !.error_message = r.msg]

\* JobOutcome with error_message written on both branches.
JobOutcome_alwaysMessage(job, r) ==
    IF r.ok
    THEN [job EXCEPT !.status = "completed", !.error_message = ""]
    ELSE [job EXCEPT !.status = "failed", !.error_message = r.msg]

\* The job row as the try/except leaves it in the session.
JobOutcome(job, r) ==
    IF r.ok
    THEN [job EXCEPT !.status = "completed"]
    ELSE [job EXCEPT !.status = "failed", !.error_message = r.msg]

\* The stage status as the try/except leaves it in the session.
StageOutcome(r) == IF r.ok THEN "completed" ELSE "failed"

\* The text postprocess_multi_files leaves in the combined transcript.
AdapterText == <<"t">>

\* The executors' try/except/finally.  The commit in the finally block
\* writes the Episode row first; when a delete removed that row during the
\* processing call the flush raises (StaleDataError: 0 rows matched), the
\* transaction is rolled back and the exception leaves the task before
\* session.close() is reached.
ExecEnd(j, out) ==
    /\ Idle
    /\ UNCHANGED call
    /\ j \in DOMAIN tasks
    /\ tasks[j].pc = (IF jobs[j].type = "export" THEN "writing" ELSE "adapter")
    /\ LET e == jobs[j].episode_id
           t == jobs[j].type
           r == TryBlock(t, Tree(dirs, e), out, tasks[j].title)
       IN /\ out \in Outcomes(t)
          /\ dirs' = With(dirs, e, r.files)
          /\ srt' = IF t = "postprocess" /\ "postprocessed/srt" \in out
                    THEN [srt EXCEPT ![e] = AdapterText]
                    ELSE srt
          /\ IF ~EpisodeFound(e)
             THEN /\ tasks' = [tasks EXCEPT ![j].pc = "raised", ![j].title = None]
                  /\ UNCHANGED <<episodes, jobs>>
             ELSE /\ episodes' = [episodes EXCEPT ![e][StatusField(t)] = StageOutcome(r)]
                  /\ jobs' = [jobs EXCEPT ![j] = JobOutcome(jobs[j], r)]
                  /\ tasks' = [tasks EXCEPT ![j].pc = "returned", ![j].closed = TRUE,
                                            ![j].title = None]
    /\ ev' = NoEv
    /\ UNCHANGED <<nextId, metaReqs>>

\* ------------------------------------------------------------------- Next
AllOutcomes == UNION {Outcomes(JobType[i]) : i \in 1..Len(JobType)}

\* The response of the last request goes out to the client.  No handler reads
\* ev, so letting every response leave before the next step is taken (Idle)
\* removes no behaviour of the store; background tasks start after the
\* response.
Deliver ==
    /\ ev # NoEv
    /\ ev' = NoEv
    /\ UNCHANGED <<episodes, nextId, jobs, tasks, dirs, metaReqs, srt, call>>

\* The step stays inside the bounds: uuids generated, rows inserted.
Bounded == nextId' <= MaxEpisodes /\ nextId' + Len(jobs') <= MaxRows

Next ==
    \/ \E up \in Uploads, title \in Titles : create_episode(up, title) /\ Bounded
    \/ \E e \in RequestIds : get_episode(e)
    \/ \E e \in RequestIds, title \in Titles \cup {None}, editor_state \in EditorStates \cup {None} :
          update_episode(e, title, editor_state)
    \/ \E e \in RequestIds : delete_episode(e)
    \/ \E e \in RequestIds : apply_audio_edits(e) /\ Bounded
    \/ \E e \in RequestIds : initiate_postprocess(e) /\ Bounded
    \/ \E e \in RequestIds : initiate_export(e) /\ Bounded
    \/ \E e \in RequestIds : generate_episode_metadata(e)
    \/ \E e \in EpisodeIds, out \in Outcomes("metadata") : generate_episode_metadata_finish(e, out)
    \/ \E j \in DOMAIN tasks : ExecBegin(j)
    \/ \E j \in DOMAIN tasks : ExecClear(j)
    \/ \E j \in DOMAIN tasks, out \in AllOutcomes : ExecEnd(j, out)
    \/ Deliver

Spec == Init /\ [][Next]_vars

\* =========================================================== app/v1/utils.py
\* The functions of utils.py are pure; each is run on its own, from a frame
\* (call) that holds its arguments and locals, the store left as Init has it.
program == <<episodes, nextId, jobs, tasks, dirs, metaReqs, srt, ev>>

Quiescent ==
    /\ episodes = <<>>
    /\ nextId = 0
    /\ jobs = <<>>
    /\ tasks = <<>>
    /\ dirs = <<>>
    /\ metaReqs = [e \in EpisodeIds |-> 0]
    /\ srt = [e \in EpisodeIds |-> <<>>]
    /\ ev = NoEv

\* ------------------------------------------------------- strings and paths
\* A str is the sequence of its characters.
\* `sub in s`
Contains(s, sub) ==
    \E i \in 1..(Len(s) - Len(sub) + 1) : SubSeq(s, i, i + Len(sub) - 1) = sub

\* s.rfind(c) + 1: the last position of character c in s, 0 when absent.
RFind(s, c) ==
    IF \E i \in 1..Len(s) : s[i] = c
    THEN CHOOSE i \in 1..Len(s) : s[i] = c /\ \A k \in (i + 1)..Len(s) : s[k] # c
    ELSE 0

\* Path(name).name: the part after the last "/".
PathName(name) == SubSeq(name, RFind(name, "/") + 1, Len(name))

\* The position of the dot that starts the suffix of a final path component,
\* 0 when it has none (a leading or a trailing dot starts no suffix).
SuffixDot(n) == LET i == RFind(n, ".") IN IF 1 < i /\ i < Len(n) THEN i ELSE 0

\* Path(name).suffix
Suffix(name) ==
    LET n == PathName(name) IN
    IF SuffixDot(n) = 0 THEN <<>> ELSE SubSeq(n, SuffixDot(n), Len(n))

\* Path(name).stem
Stem(name) ==
    LET n == PathName(name) IN
    IF SuffixDot(n) = 0 THEN n ELSE SubSeq(n, 1, SuffixDot(n) - 1)

\* str.lower() on the characters names are made of here.
LowerChar(c) ==
    CASE c = "A" -> "a" [] c = "V" -> "v" [] c = "W" -> "w" [] OTHER -> c

Lower(s) == [i \in 1..Len(s) |-> LowerChar(s[i])]

\* ------------------------------------------- validate_audio_files_or_400_413
VARID_EXTENSIONS ==
    {<<".", "w", "a", "v">>, <<".", "m", "4", "a">>,
     <<".", "a", "i", "f", "c">>, <<".", "m", "p", "4">>}

MAX_TOTAL_SIZE == 500 * 1024 * 1024

chunk_size == 1024 * 1024

\* _is_safe_filename
IsSafeFilename(filename) ==
    IF \/ filename = <<>>
       \/ Contains(filename, <<".", ".">>)
       \/ Contains(filename, <<"/">>)
       \/ Contains(filename, <<"\\">>)
    THEN FALSE
    ELSE IF filename[1] = "." THEN FALSE ELSE TRUE

\* The first for loop: the detail of the HTTPException(400) the first
\* offending file raises, None when the loop ends.  A file without a name
\* (filename None or "") is one whose filename is the empty sequence.
RECURSIVE CheckNames(_, _)
CheckNames(files, i) ==
    IF i > Len(files) THEN None
    ELSE LET filename == files[i].filename IN
         IF filename = <<>> THEN "No file name provided"
         ELSE IF ~IsSafeFilename(filename) THEN "Unsafe file name"
         ELSE IF Lower(Suffix(filename)) \notin VARID_EXTENSIONS THEN "Unsupported file type"
         ELSE CheckNames(files, i + 1)

Min(a, b) == IF a <= b THEN a ELSE b

\* The while loop over one stream of `size` bytes: chunks of at most
\* chunk_size are read until an empty one; each is added to total_size and
\* the limit is checked after each.  The loop ends at the first chunk after
\* which total_size exceeds the limit (raise), else at the end of the stream.
ReadChunks(total_size, size) ==
    LET chunks == (size + chunk_size - 1) \div chunk_size
        After(k) == total_size + Min(k * chunk_size, size)
        Over(k) == After(k) > MAX_TOTAL_SIZE
    IN IF \E k \in 1..chunks : Over(k)
       THEN LET k == CHOOSE n \in 1..chunks : Over(n) /\ (n = 1 \/ ~Over(n - 1))
            IN [total_size |-> After(k), raised |-> TRUE]
       ELSE [total_size |-> After(chunks), raised |-> FALSE]

\* Uploads at most this long are validated.
MaxFiles == 2

UploadNames ==
    {<<>>,
     <<"a", ".", "w", "a", "v">>,
     <<"A", ".", "W", "A", "V">>,
     <<".", ".", "/", "a", ".", "w", "a", "v">>,
     <<".", "w", "a", "v">>,
     <<"a", ".", "t", "x", "t">>}

UploadSizes == {0, 1, MAX_TOTAL_SIZE, MAX_TOTAL_SIZE + 1}

\* An UploadFile: its name, whether its headers carry content-length, and
\* its size (the header's value, or the length of its stream).
UploadFiles == [filename : UploadNames, has_length : BOOLEAN, size : UploadSizes]

Lists(S, n) == UNION {[1..k -> S] : k \in 0..n}

InitValidate ==
    /\ Quiescent
    /\ \E files \in Lists(UploadFiles, MaxFiles) :
          call = [fn |-> "validate", files |-> files, pc |-> "names",
                  i |-> 1, total_size |-> 0, status_code |-> 0]

\* validate_names with the first loop left after its first iteration: only
\* the name of the first file is checked.
validate_names_firstOnly ==
    /\ call.pc = "names"
    /\ call' = IF CheckNames(SubSeq(call.files, 1, Min(1, Len(call.files))), 1) # None
               THEN [call EXCEPT !.pc = "done", !.status_code = 400]
               ELSE [call EXCEPT !.pc = "sizes"]
    /\ UNCHANGED program

\* The first for loop.
validate_names ==
    /\ call.pc = "names"
    /\ call' = IF CheckNames(call.files, 1) # None
               THEN [call EXCEPT !.pc = "done", !.status_code = 400]
               ELSE [call EXCEPT !.pc = "sizes"]
    /\ UNCHANGED program

\* One iteration of the second for loop, on file i.
validate_size ==
    /\ call.pc = "sizes"
    /\ call.i <= Len(call.files)
    /\ LET file == call.files[call.i] IN
       IF file.has_length
       THEN call' = [call EXCEPT !.total_size = @ + file.size, !.i = @ + 1]
       ELSE LET r == ReadChunks(call.total_size, file.size) IN
            call' = IF r.raised
                    THEN [call EXCEPT !.total_size = r.total_size, !.pc = "done", !.status_code = 413]
                    ELSE [call EXCEPT !.total_size = r.total_size, !.i = @ + 1]
    /\ UNCHANGED program

\* The second loop is over: the function returns None (status_code stays 0:
\* no HTTPException was raised).
validate_return ==
    /\ call.pc = "sizes"
    /\ call.i > Len(call.files)
    /\ call' = [call EXCEPT !.pc = "done"]
    /\ UNCHANGED program

NextValidate == validate_names \/ validate_size \/ validate_return

SpecValidate == InitValidate /\ [][NextValidate]_vars


\* ------------------------------------------------------- _get_combined_file
\* Lists at most this long are resolved.
MaxList == 3

\* Names a glob of *.wav can give.
ListNames ==
    {<<"a", ".", "w", "a", "v">>,
     <<"a", "-", "1", ".", "w", "a", "v">>,
     <<"a", "-", "2", ".", "w", "a", "v">>,
     <<"b", ".", "w", "a", "v">>,
     <<".", "w", "a", "v">>}

InitCombined ==
    /\ Quiescent
    /\ \E files \in Lists(ListNames, MaxList) \ {<<>>} :
          call = [fn |-> "_get_combined_file", files |-> files, pc |-> "for",
                  i |-> 1, combined_file |-> 0, returned |-> <<>>]

\* combined_loop with the break left out: the loop runs to the end of the
\* list and keeps the last file whose stem has no "-".
combined_loop_noBreak ==
    /\ call.pc = "for"
    /\ IF call.i > Len(call.files)
       THEN call' = [call EXCEPT !.pc = "after"]
       ELSE LET file == call.files[call.i]
                file_prefix == Stem(file)
            IN call' = IF ~Contains(file_prefix, <<"-">>)
                       THEN [call EXCEPT !.combined_file = call.i, !.i = @ + 1]
                       ELSE [call EXCEPT !.i = @ + 1]
    /\ UNCHANGED program

\* One iteration of the for loop (or its end): combined_file is the position
\* in the list of the file it refers to, 0 for None.
combined_loop ==
    /\ call.pc = "for"
    /\ IF call.i > Len(call.files)
       THEN call' = [call EXCEPT !.pc = "after"]
       ELSE LET file == call.files[call.i]
                file_prefix == Stem(file)
            IN call' = IF ~Contains(file_prefix, <<"-">>)
                       THEN [call EXCEPT !.combined_file = call.i, !.pc = "after"]
                       ELSE [call EXCEPT !.i = @ + 1]
    /\ UNCHANGED program

\* `if combined_file is None: combined_file = files[0]` and the return.
combined_return ==
    /\ call.pc = "after"
    /\ LET combined_file == IF call.combined_file = 0 THEN 1 ELSE call.combined_file
       IN call' = [call EXCEPT !.pc = "done", !.combined_file = combined_file,
                               !.returned = call.files[combined_file]]
    /\ UNCHANGED program

NextCombined == combined_loop \/ combined_return

SpecCombined == InitCombined /\ [][NextCombined]_vars

\* ------------------------------------------- copies of the resolution loop
\* router.py repeats the loop of _get_combined_file in three places, each on
\* the list a glob gave: _get_combined_srt_or_404 (postprocessed/*.srt),
\* get_postprocessed_audio and generate_episode_metadata (postprocessed/*.wav).
\* A result is the position in the list of the file returned, 0 for None.
\* `for f in files: if "-" not in f.stem: x = f; break`, from position i on.
RECURSIVE ForBreak(_, _)
ForBreak(files, i) ==
    IF i > Len(files) THEN 0
    ELSE IF ~Contains(Stem(files[i]), <<"-">>) THEN i
    ELSE ForBreak(files, i + 1)

\* bool(x) of a value that is None or a Path: a Path, whatever its name, is
\* true (PurePath defines neither __bool__ nor __len__).
Truthy(x) == x # 0

\* The loop of _get_combined_srt_or_404 and
\* `if combined_srt is None: combined_srt = srt_files[0]`.
get_combined_srt_or_404(srt_files) ==
    LET combined_srt == ForBreak(srt_files, 1)
    IN IF combined_srt = 0 THEN 1 ELSE combined_srt

\* The loop of get_postprocessed_audio and
\* `if combined_audio is None: combined_audio = audio_files[0]`.
postprocessed_combined_audio(audio_files) ==
    LET combined_audio == ForBreak(audio_files, 1)
    IN IF combined_audio = 0 THEN 1 ELSE combined_audio

\* metadata_audio_file with the break left out of its loop: the last file
\* whose stem has no "-" is kept.
metadata_audio_file_lastMatch(audio_files) ==
    LET free == {i \in 1..Len(audio_files) : ~Contains(Stem(audio_files[i]), <<"-">>)}
        combined_audio == IF free = {} THEN 0 ELSE CHOOSE i \in free : \A k \in free : k <= i
    IN IF Truthy(combined_audio) THEN combined_audio ELSE 1

\* The loop of generate_episode_metadata (run when audio_files is not empty)
\* and `audio_file = combined_audio or audio_files[0]`.
metadata_audio_file(audio_files) ==
    LET combined_audio == ForBreak(audio_files, 1)
    IN IF Truthy(combined_audio) THEN combined_audio ELSE 1

\* The four copies run on one list: _get_combined_file step by step in the
\* frame, the other three writing the position they return into it.
InitCopies ==
    /\ Quiescent
    /\ \E files \in Lists(ListNames, MaxList) \ {<<>>} :
          call = [fn |-> "copies", files |-> files, pc |-> "for",
                  i |-> 1, combined_file |-> 0, returned |-> <<>>,
                  combined_srt |-> 0, combined_audio |-> 0, audio_file |-> 0]

run_get_combined_srt_or_404 ==
    /\ call.combined_srt = 0
    /\ call' = [call EXCEPT !.combined_srt = get_combined_srt_or_404(call.files)]
    /\ UNCHANGED program

run_get_postprocessed_audio ==
    /\ call.combined_audio = 0
    /\ call' = [call EXCEPT !.combined_audio = postprocessed_combined_audio(call.files)]
    /\ UNCHANGED program

run_generate_episode_metadata ==
    /\ call.audio_file = 0
    /\ call' = [call EXCEPT !.audio_file = metadata_audio_file(call.files)]
    /\ UNCHANGED program

NextCopies ==
    \/ combined_loop
    \/ combined_return
    \/ run_get_combined_srt_or_404
    \/ run_get_postprocessed_audio
    \/ run_generate_episode_metadata

SpecCopies == InitCopies /\ [][NextCopies]_vars

\* ==================================================== artifact endpoints
\* The GET routes that serve what the stages left in the episode's tree.  A
\* tree entry such as "preprocessed/wav" stands for one file: preprocessed/wav
\* is preprocessed/a.wav, source/files is source/a.wav.  A response records
\* the route, the file name the caller gave (<<>> when the route takes none),
\* the paths the handler looked at (exists, glob, open) and the paths it
\* served.  Reads that the operating system refuses (the 500 branches) are
\* left out.
ReadResp(route, e, t, name, r) ==
    [kind |-> "read", ep |-> e, stage |-> t, code |-> r.code, reason |-> r.reason,
     route |-> route, name |-> name, fs |-> r.fs, body |-> r.body, content |-> r.content]

\* The response of the PUT route of the annotated transcript.
WriteResp(e, r) ==
    [kind |-> "write", ep |-> e, stage |-> "postprocess", code |-> r.code, reason |-> r.reason,
     route |-> "annotated-srt", name |-> <<>>, fs |-> r.fs, body |-> r.body,
     content |-> r.content]

\* What a handler answers without touching the tree.
Refuse(code, reason) ==
    [code |-> code, reason |-> reason, fs |-> {}, body |-> {}, content |-> <<>>]

\* What a handler answers after looking at the paths fs.
Answer(code, reason, fs, body) ==
    [code |-> code, reason |-> reason, fs |-> fs, body |-> body, content |-> <<>>]

\* What a handler answers when the body is the text of a file.
AnswerText(code, reason, fs, body, content) ==
    [code |-> code, reason |-> reason, fs |-> fs, body |-> body, content |-> content]

\* ReadHandler with the _check_*_or_400 call left out.
ReadHandler_noCheck(route, e, t, name, rest) ==
    /\ Idle
    /\ UNCHANGED <<call, srt>>
    /\ ev' = IF ~EpisodeFound(e)
             THEN ReadResp(route, e, t, name, Refuse(404, "Episode not found"))
             ELSE ReadResp(route, e, t, name, rest)
    /\ UNCHANGED <<episodes, nextId, jobs, tasks, dirs, metaReqs>>

\* The two lines every artifact handler starts with, _get_episode_or_404 and
\* the _check_*_or_400 of the stage t it is gated on, then the rest of it.
ReadHandler(route, e, t, name, rest) ==
    /\ Idle
    /\ UNCHANGED <<call, srt>>
    /\ ev' = IF ~EpisodeFound(e)
             THEN ReadResp(route, e, t, name, Refuse(404, "Episode not found"))
             ELSE IF episodes[e][StatusField(t)] # "completed"
                  THEN ReadResp(route, e, t, name, Refuse(400, "not completed"))
                  ELSE ReadResp(route, e, t, name, rest)
    /\ UNCHANGED <<episodes, nextId, jobs, tasks, dirs, metaReqs>>

\* get_preprocessed_audio_files: [] when preprocessed/ is missing, else the
\* names of its .wav files.
get_preprocessed_audio_files(e) ==
    ReadHandler("audios", e, "preprocess", <<>>,
        LET tree == Tree(dirs, e) IN
        IF "preprocessed/" \notin tree
        THEN Answer(200, "ok", {"preprocessed/"}, {})
        ELSE Answer(200, "ok", {"preprocessed/", "preprocessed/wav"},
                    tree \cap {"preprocessed/wav"}))

\* File names a caller can put in the audio route.
AudioNames ==
    {<<"a", ".", "w", "a", "v">>,
     <<"b", ".", "w", "a", "v">>,
     <<".", ".", "/", "s", "o", "u", "r", "c", "e", "/", "a", ".", "w", "a", "v">>,
     <<"x", "/", "a", ".", "w", "a", "v">>,
     <<"a", ".", ".", "w", "a", "v">>,
     <<"a", "\\", "b", ".", "w", "a", "v">>}

\* The tree entry that app_dir / "episodes" / episode_id / "preprocessed" /
\* file_name names.
PreprocessedPath(file_name) ==
    CASE file_name = <<"a", ".", "w", "a", "v">> -> "preprocessed/wav"
      [] file_name = <<".", ".", "/", "s", "o", "u", "r", "c", "e", "/", "a", ".", "w", "a", "v">> ->
           "source/files"
      [] OTHER -> "preprocessed/(no such file)"

\* `".." in file_name or "/" in file_name or "\\" in file_name`
InvalidFileName(file_name) ==
    \/ Contains(file_name, <<".", ".">>)
    \/ Contains(file_name, <<"/">>)
    \/ Contains(file_name, <<"\\">>)

\* AudioFile with the path built and tested before the name is looked at.
AudioFile_existsFirst(tree, file_name) ==
    LET audio_file_path == PreprocessedPath(file_name) IN
    IF audio_file_path \notin tree
    THEN Answer(404, "Audio file not found", {audio_file_path}, {})
    ELSE IF InvalidFileName(file_name)
         THEN Answer(400, "Invalid file name", {audio_file_path}, {})
         ELSE Answer(200, "ok", {audio_file_path}, {audio_file_path})

\* get_audio_file after the gate: the name is checked, then the path is
\* built, tested and served.
AudioFile(tree, file_name) ==
    IF InvalidFileName(file_name)
    THEN Refuse(400, "Invalid file name")
    ELSE LET audio_file_path == PreprocessedPath(file_name) IN
         IF audio_file_path \notin tree
         THEN Answer(404, "Audio file not found", {audio_file_path}, {})
         ELSE Answer(200, "ok", {audio_file_path}, {audio_file_path})

\* get_audio_file with the file name looked at first, before the episode is
\* looked up.
get_audio_file_nameFirst(e, file_name) ==
    IF InvalidFileName(file_name)
    THEN /\ Idle
         /\ UNCHANGED <<call, srt>>
         /\ ev' = ReadResp("audio", e, "preprocess", file_name, Refuse(400, "Invalid file name"))
         /\ UNCHANGED <<episodes, nextId, jobs, tasks, dirs, metaReqs>>
    ELSE ReadHandler("audio", e, "preprocess", file_name, AudioFile(Tree(dirs, e), file_name))

get_audio_file(e, file_name) ==
    ReadHandler("audio", e, "preprocess", file_name, AudioFile(Tree(dirs, e), file_name))

\* get_transcription: the first .srt of preprocessed/.
get_transcription(e) ==
    ReadHandler("srt", e, "preprocess", <<>>,
        IF "preprocessed/srt" \notin Tree(dirs, e)
        THEN Answer(404, "SRT file not found", {"preprocessed/srt"}, {})
        ELSE Answer(200, "ok", {"preprocessed/srt"}, {"preprocessed/srt"}))

\* get_edited_audio_files: a missing edited-combined.wav is answered 400.
get_edited_audio_files(e) ==
    ReadHandler("edited-audio", e, "edit", <<>>,
        IF "edited-combined.wav" \notin Tree(dirs, e)
        THEN Answer(400, "Edit audio is not completed", {"edited-combined.wav"}, {})
        ELSE Answer(200, "ok", {"edited-combined.wav"}, {"edited-combined.wav"}))

\* A handler that serves one file of a stage directory: 404 when the
\* directory is missing, 404 when it holds no such file.
ServeFrom(tree, dir, file) ==
    IF dir \notin tree
    THEN Answer(404, "directory not found", {dir}, {})
    ELSE IF file \notin tree
         THEN Answer(404, "file not found", {dir, file}, {})
         ELSE Answer(200, "ok", {dir, file}, {file})

get_postprocessed_audio(e) ==
    ReadHandler("postprocessed-audio", e, "postprocess", <<>>,
                ServeFrom(Tree(dirs, e), "postprocessed/", "postprocessed/wav"))

get_metadata_audio(e) ==
    ReadHandler("metadata-audio", e, "metadata", <<>>,
                ServeFrom(Tree(dirs, e), "metadata/", "metadata/wav"))

get_chapter_info(e) ==
    ReadHandler("chapters", e, "metadata", <<>>,
                ServeFrom(Tree(dirs, e), "metadata/", "metadata/chapters.txt"))

get_show_notes(e) ==
    ReadHandler("show-notes", e, "metadata", <<>>,
                ServeFrom(Tree(dirs, e), "metadata/", "metadata/show_notes.md"))

\* download_export: zip_files[0] of export/.
download_export(e) ==
    ReadHandler("export", e, "export", <<>>,
        LET tree == Tree(dirs, e)
            zip_files == tree \cap ZipPaths
        IN IF "export/" \notin tree
           THEN Answer(404, "Export directory not found", {"export/"}, {})
           ELSE IF zip_files = {}
                THEN Answer(404, "Export zip file not found", {"export/"}, {})
                ELSE LET zip_file == CHOOSE z \in zip_files : TRUE
                     IN Answer(200, "ok", {"export/", zip_file}, {zip_file}))

\* os.linesep
linesep == <<"\n">>

\* What file.write(s) puts in a file opened with open(path, "w",
\* encoding="utf-8"): newline is None, so every "\n" is written as os.linesep.
RECURSIVE WriteText(_)
WriteText(s) ==
    IF s = <<>> THEN <<>>
    ELSE (IF Head(s) = "\n" THEN linesep ELSE <<Head(s)>>) \o WriteText(Tail(s))

\* What file.read() returns from a file opened with open(path, "r",
\* encoding="utf-8"): newline is None, so "\r\n" and "\r" are both read as
\* "\n".
RECURSIVE ReadText(_)
ReadText(b) ==
    IF b = <<>> THEN <<>>
    ELSE IF Head(b) = "\r"
         THEN IF Len(b) > 1 /\ b[2] = "\n"
              THEN <<"\n">> \o ReadText(Tail(Tail(b)))
              ELSE <<"\n">> \o ReadText(Tail(b))
         ELSE <<Head(b)>> \o ReadText(Tail(b))

\* get_annotated_srt after the gate: 404 when postprocessed/ holds no .srt,
\* else the text read from the combined transcript, whose bytes are `text`.
AnnotatedSrt(tree, text) ==
    IF "postprocessed/srt" \notin tree
    THEN Answer(404, "Annotated SRT file not found", {"postprocessed/srt"}, {})
    ELSE AnswerText(200, "ok", {"postprocessed/srt"}, {"postprocessed/srt"}, ReadText(text))

get_annotated_srt(e) ==
    ReadHandler("annotated-srt", e, "postprocess", <<>>, AnnotatedSrt(Tree(dirs, e), srt[e]))

\* Values of AnnotatedSrtContent.content.
SrtContents == {<<"a", "\n", "b">>, <<"a", "\r", "\n", "b">>}

\* update_annotated_srt: the content is written over the combined
\* transcript and the request body is returned as it came.
update_annotated_srt(e, content) ==
    /\ Idle
    /\ UNCHANGED call
    /\ IF ~EpisodeFound(e)
       THEN /\ ev' = WriteResp(e, Refuse(404, "Episode not found"))
            /\ UNCHANGED srt
       ELSE IF episodes[e].postprocess_status # "completed"
            THEN /\ ev' = WriteResp(e, Refuse(400, "not completed"))
                 /\ UNCHANGED srt
            ELSE IF "postprocessed/srt" \notin Tree(dirs, e)
                 THEN /\ ev' = WriteResp(e, Answer(404, "Annotated SRT file not found",
                                                   {"postprocessed/srt"}, {}))
                      /\ UNCHANGED srt
                 ELSE /\ srt' = [srt EXCEPT ![e] = WriteText(content)]
                      /\ ev' = WriteResp(e, AnswerText(200, "ok", {"postprocessed/srt"}, {},
                                                       content))
    /\ UNCHANGED <<episodes, nextId, jobs, tasks, dirs, metaReqs>>

\* ----------------------------------------------------------------- SpecRead
\* The pipeline with the artifact routes added.  No artifact route reads
\* title or editor_state: get_episode and update_episode are left out and
\* episodes are created with the default title.
NextRead ==
    \/ \E up \in Uploads : create_episode(up, "") /\ Bounded
    \/ \E e \in RequestIds : delete_episode(e)
    \/ \E e \in RequestIds : apply_audio_edits(e) /\ Bounded
    \/ \E e \in RequestIds : initiate_postprocess(e) /\ Bounded
    \/ \E e \in RequestIds : initiate_export(e) /\ Bounded
    \/ \E e \in RequestIds : generate_episode_metadata(e)
    \/ \E e \in EpisodeIds, out \in Outcomes("metadata") : generate_episode_metadata_finish(e, out)
    \/ \E j \in DOMAIN tasks : ExecBegin(j)
    \/ \E j \in DOMAIN tasks : ExecClear(j)
    \/ \E j \in DOMAIN tasks, out \in AllOutcomes : ExecEnd(j, out)
    \/ Deliver
    \/ \E e \in RequestIds : get_preprocessed_audio_files(e)
    \/ \E e \in RequestIds, file_name \in AudioNames : get_audio_file(e, file_name)
    \/ \E e \in RequestIds : get_transcription(e)
    \/ \E e \in RequestIds : get_edited_audio_files(e)
    \/ \E e \in RequestIds : get_postprocessed_audio(e)
    \/ \E e \in RequestIds : get_annotated_srt(e)
    \/ \E e \in RequestIds, content \in SrtContents : update_annotated_srt(e, content)
    \/ \E e \in RequestIds : get_metadata_audio(e)
    \/ \E e \in RequestIds : get_chapter_info(e)
    \/ \E e \in RequestIds : get_show_notes(e)
    \/ \E e \in RequestIds : download_export(e)

SpecRead == Init /\ [][NextRead]_vars

\* --------------------------------------------------------------- SpecExport
\* Export executions of one episode, side by side, from the state the
\* pipeline is in once metadata generation has completed.
\* Export jobs of the episode.
MaxExports == 2

\* The tree of an episode whose first four stages have completed.
MetadataTree ==
    {"source/", "source/files",
     "preprocessed/", "preprocessed/wav", "preprocessed/srt",
     "edited/", "edited/wav", "edited-combined.wav",
     "postprocessed/", "postprocessed/wav", "postprocessed/srt",
     "metadata/", "metadata/chapters.txt", "metadata/show_notes.md", "metadata/wav"}

\* Episode 1 was created, preprocessed, edited and postprocessed by one job
\* each, its metadata generated, every task returned and every response
\* delivered; no export has been asked for.
InitExport ==
    /\ \E title \in Titles :
          episodes = (1 :> [Episode EXCEPT !.preprocess_status = "completed",
                                           !.edit_status = "completed",
                                           !.postprocess_status = "completed",
                                           !.metadata_generation_status = "completed",
                                           !.title = title])
    /\ nextId = 1
    /\ jobs = [j \in 1..3 |-> [ProcessingJob(1, JobType[j]) EXCEPT !.status = "completed"]]
    /\ tasks = [j \in 1..3 |-> [Task EXCEPT !.pc = "returned", !.closed = TRUE]]
    /\ dirs = (1 :> MetadataTree)
    /\ metaReqs = [e \in EpisodeIds |-> 0]
    /\ srt = [e \in EpisodeIds |-> IF e = 1 THEN AdapterText ELSE <<>>]
    /\ ev = NoEv
    /\ call = NoCall

\* The step stays inside the bound on export jobs.
BoundedExport == Len(jobs') <= 3 + MaxExports

NextExport ==
    \/ \E e \in RequestIds, title \in Titles : update_episode(e, title, None)
    \/ \E e \in RequestIds : delete_episode(e)
    \/ \E e \in RequestIds : initiate_export(e) /\ BoundedExport
    \/ \E j \in DOMAIN tasks : ExecBegin(j)
    \/ \E j \in DOMAIN tasks : ExecClear(j)
    \/ \E j \in DOMAIN tasks, out \in Outcomes("export") : ExecEnd(j, out)
    \/ \E e \in RequestIds : download_export(e)
    \/ Deliver

SpecExport == InitExport /\ [][NextExport]_vars

\* ----------------------------------------------------------------- SpecList
\* read_episodes over the stores that creating and deleting episodes leave.
\* Episodes ever created.
MaxListed == 2

\* The rows of a `select(Episode)` without ORDER BY, in the order the table
\* is scanned: the order of insertion.
RECURSIVE Ascending(_)
Ascending(S) ==
    IF S = {} THEN <<>>
    ELSE LET m == CHOOSE x \in S : \A y \in S : x <= y
         IN <<m>> \o Ascending(S \ {m})

StoreOrder == Ascending(DOMAIN episodes)

\* Values of the offset and limit query parameters.
Offsets == -1..(MaxListed + 1)

Limits == (-1..MaxListed) \cup {100, 101}

\* Query(ge=0) on offset, Query(le=100) on limit: limit has no lower bound.
ValidQuery(offset, limit) == offset >= 0 /\ limit <= 100

\* .offset(offset).limit(limit) on the rows `order`.  A negative LIMIT is no
\* limit in SQLite, the engine the repository's tests run on.
Select(order, offset, limit) ==
    LET last == IF limit < 0 THEN Len(order) ELSE Min(Len(order), offset + limit)
    IN [i \in 1..(IF last > offset THEN last - offset ELSE 0) |-> order[offset + i]]

ListResp(offset, limit, code, items) ==
    [kind |-> "list", ep |-> 0, stage |-> "none", code |-> code, reason |-> "none",
     offset |-> offset, limit |-> limit, items |-> items]

\* read_episodes: the uuids of the rows returned.
read_episodes(offset, limit) ==
    /\ Idle
    /\ UNCHANGED <<call, srt>>
    /\ ev' = IF ValidQuery(offset, limit)
             THEN ListResp(offset, limit, 200, Select(StoreOrder, offset, limit))
             ELSE ListResp(offset, limit, 422, <<>>)
    /\ UNCHANGED <<episodes, nextId, jobs, tasks, dirs, metaReqs>>

\* The step stays inside the bound on episodes.
BoundedList == nextId' <= MaxListed

NextList ==
    \/ \E up \in Uploads, title \in Titles : create_episode(up, title) /\ BoundedList
    \/ \E e \in RequestIds : delete_episode(e)
    \/ \E offset \in Offsets, limit \in Limits : read_episodes(offset, limit)
    \/ Deliver

SpecList == Init /\ [][NextList]_vars

\* --------------------------------------------------------------- SpecDelete
\* Episodes side by side: created, preprocessed, edited and deleted.
\* Episodes ever created.
MaxOwners == 2
\* ProcessingJob rows ever inserted.
MaxOwnedJobs == 3

\* The step stays inside the bounds on episodes and job rows.
BoundedDelete == nextId' <= MaxOwners /\ Len(jobs') <= MaxOwnedJobs

NextDelete ==
    \/ \E up \in Uploads : create_episode(up, "") /\ BoundedDelete
    \/ \E e \in RequestIds : delete_episode(e)
    \/ \E e \in RequestIds : apply_audio_edits(e) /\ BoundedDelete
    \/ \E j \in DOMAIN tasks : ExecBegin(j)
    \/ \E j \in DOMAIN tasks, out \in Outcomes("preprocess") \cup Outcomes("edit") : ExecEnd(j, out)
    \/ Deliver

SpecDelete == Init /\ [][NextDelete]_vars

\* ================================================================ claims
GatedStages == {"edit", "postprocess", "metadata", "export"}

StageIndex(t) == CHOOSE i \in 1..Len(JobType) : JobType[i] = t

\* The stage immediately before t in the pipeline order.
PrecedingStage(t) == JobType[StageIndex(t) - 1]

OtherStages(t) == JobTypes \ {t}

\* The step is the arrival of a trigger request for stage t of episode e.
Arrives(e, t) == IF t = "metadata" THEN generate_episode_metadata(e) ELSE Trigger(e, t)

\* The step answers a trigger request for (e, t) with a 2xx response.
Succeeds(e, t) ==
    /\ ev' # ev
    /\ ev'.kind = "trigger" /\ ev'.ep = e /\ ev'.stage = t
    /\ ev'.code \in {200, 202}

C2_TriggerCreatesPendingJob ==
    [][\A e \in EpisodeIds, t \in GatedStages :
          Succeeds(e, t) =>
             /\ Len(jobs') = Len(jobs) + 1
             /\ jobs'[Len(jobs')] = ProcessingJob(e, t)
             /\ \A j \in 1..Len(jobs) : jobs'[j] = jobs[j]
             /\ episodes'[e][StatusField(t)] = "pending"
             /\ \A u \in OtherStages(t) :
                   episodes'[e][StatusField(u)] = episodes[e][StatusField(u)]]_vars

\* ------------------------------------------------------------------- C3
\* C3: a trigger refused because the episode does not exist (404) or because
\* the preceding stage is not completed (400) changes no Episode row, no
\* ProcessingJob row, no directory and schedules no task; a missing episode
\* is always answered 404, never 400.
C3_RejectedTriggerChangesNothing ==
    [][(ev'.kind = "trigger" /\ ev'.reason \in {"episode_not_found", "precondition"}) =>
          /\ UNCHANGED store
          /\ ev'.reason = "episode_not_found" <=> ~EpisodeFound(ev'.ep)
          /\ ev'.code = (IF EpisodeFound(ev'.ep) THEN 400 ELSE 404)]_vars

\* An export trigger was just refused with 400 while jobs and tasks exist.
C3_Witness ==
    /\ ev.kind = "trigger" /\ ev.stage = "export" /\ ev.reason = "precondition"
    /\ Len(jobs) > 0

\* ------------------------------------------------------------------- C4
\* C4: whenever an execution that found its job row and its episode row has
\* returned, the job's status is completed or failed.
C4_ReturnedJobIsTerminal ==
    \A j \in DOMAIN tasks : tasks[j].pc = "returned" => jobs[j].status \in Terminal

\* An execution whose processing call raised has returned.
C4_Witness ==
    \E j \in DOMAIN tasks :
        tasks[j].pc = "returned" /\ jobs[j].error_message = "adapter error"

\* ------------------------------------------------------------------- C5
\* C5: for every stage, metadata included, when a stage execution that moved
\* the stage status to processing ends (success, adapter failure, missing
\* input artifact), the Episode's status for that stage is completed or
\* failed.
C5_StageTerminalOnEveryExit ==
    [][/\ \A j \in DOMAIN tasks :
             (tasks[j].pc \in {"adapter", "writing"} /\ tasks'[j].pc = "returned") =>
                episodes'[jobs[j].episode_id][StatusField(jobs[j].type)] \in Terminal
       /\ \A e \in EpisodeIds :
             (/\ ev' # ev
              /\ ev'.kind = "trigger" /\ ev'.stage = "metadata" /\ ev'.ep = e
              /\ ev'.reason \notin {"episode_not_found", "precondition"}
              /\ e \in DOMAIN episodes') =>
                episodes'[e].metadata_generation_status \in Terminal]_vars

\* ------------------------------------------------------------------- C6
JobSteps == {<<"pending", "processing">>, <<"processing", "completed">>,
             <<"processing", "failed">>}

\* C6: every ProcessingJob row is created pending, and in every step its
\* status stays as it is or moves pending -> processing or
\* processing -> completed | failed; rows are never removed.
C6_JobStatusMonotone ==
    [][/\ Len(jobs') >= Len(jobs)
       /\ \A j \in 1..Len(jobs) :
             jobs'[j].status = jobs[j].status \/ <<jobs[j].status, jobs'[j].status>> \in JobSteps
       /\ \A j \in (Len(jobs) + 1)..Len(jobs') : jobs'[j].status = "pending"]_vars

\* Some job has gone the whole way to failed while another is still pending.
C6_Witness ==
    \E j, k \in 1..Len(jobs) : jobs[j].status = "failed" /\ jobs[k].status = "pending"

\* ------------------------------------------------------------------- C7
\* C7: no two ProcessingJob rows of the same episode and stage are both
\* pending or processing.
C7_OneLiveJobPerStage ==
    \A j, k \in 1..Len(jobs) :
        (j # k /\ jobs[j].episode_id = jobs[k].episode_id /\ jobs[j].type = jobs[k].type)
           => (jobs[j].status \in Terminal \/ jobs[k].status \in Terminal)

\* ------------------------------------------------------------------- C8
\* C8: when an execution enters its processing call the job's status and the
\* Episode's stage status are both committed as processing; the job's status
\* is processing for as long as the call runs, and is terminal only after
\* the call has ended.
C8_ProcessingBeforeAdapter ==
    [][\A j \in DOMAIN tasks' :
          /\ (tasks'[j].pc = "adapter" /\ (j \notin DOMAIN tasks \/ tasks[j].pc # "adapter")) =>
                /\ jobs'[j].status = "processing"
                /\ episodes'[jobs'[j].episode_id][StatusField(jobs'[j].type)] = "processing"
          /\ tasks'[j].pc = "adapter" => jobs'[j].status = "processing"
          /\ tasks'[j].pc = "scheduled" => jobs'[j].status = "pending"
          /\ jobs'[j].status \in Terminal => tasks'[j].pc = "returned"]_vars

\* An execution is inside its processing call.
C8_Witness == \E j \in DOMAIN tasks : tasks[j].pc = "adapter"

\* ------------------------------------------------------------------- C9
\* C9: for all five stages, a processing call that raises is recorded
\* (stage status failed, message on the job row) and is never answered to an
\* API caller as an error response.
C9_AdapterFailureNeverSurfaces ==
    [][/\ \A j \in DOMAIN tasks :
             (tasks[j].pc \in {"adapter", "writing"} /\ tasks'[j].pc = "returned" /\ jobs'[j].status = "failed") =>
                /\ jobs'[j].error_message # None
                /\ episodes'[jobs[j].episode_id][StatusField(jobs[j].type)] = "failed"
       /\ ~(ev'.kind = "trigger" /\ ev'.code = 500 /\ ev'.reason = "adapter_failure")]_vars

\* ------------------------------------------------------------------ C10
\* C10: a ProcessingJob row has an error_message only if its status is failed.
C10_ErrorMessageOnlyWhenFailed ==
    \A j \in 1..Len(jobs) : jobs[j].error_message # None => jobs[j].status = "failed"

\* Some job row carries an error message.
C10_Witness == \E j \in 1..Len(jobs) : jobs[j].error_message # None

\* ------------------------------------------------------------------ C11
\* The step is a trigger request for stage t of episode e that passes the
\* lookup and the gate (no trigger route exists for preprocess).
Accepted(e, t) ==
    /\ t \in GatedStages
    /\ Arrives(e, t)
    /\ ev'.reason \notin {"episode_not_found", "precondition"}

\* C11: once an Episode's status for a stage is failed it stays failed until
\* a fresh trigger request for that same stage is accepted; no other step
\* (trigger of another stage, update, execution of a job) changes it.
C11_FailedUntilRetriggered ==
    [][\A e \in DOMAIN episodes \cap DOMAIN episodes', t \in JobTypes :
          (episodes[e][StatusField(t)] = "failed" /\ episodes'[e][StatusField(t)] # "failed")
             => Accepted(e, t)]_vars

\* ------------------------------------------------------------------ C12
\* The precondition of stage t: the preceding stage is completed (the first
\* stage has none).
Precondition(e, t) ==
    t = "preprocess" \/ episodes[e][StatusField(PrecedingStage(t))] = "completed"

\* The step puts stage t of episode e back to pending with a new job row.
Retry(e, t) ==
    /\ e \in DOMAIN episodes'
    /\ episodes'[e][StatusField(t)] = "pending"
    /\ Len(jobs') = Len(jobs) + 1
    /\ jobs'[Len(jobs')] = ProcessingJob(e, t)

\* C12: for each of the five stages, whenever the Episode's status for the
\* stage is failed and the stage's precondition holds, some request is
\* possible that puts the stage back to pending with a new job (while the
\* store has room for one more row); a failed preprocess can be retried.
C12_FailedStageCanBeRetried ==
    \A e \in DOMAIN episodes, t \in JobTypes :
        (/\ Idle /\ Rows < MaxRows
         /\ episodes[e][StatusField(t)] = "failed"
         /\ Precondition(e, t))
           => ENABLED (Next /\ Retry(e, t))

\* ------------------------------------------------------------------ C13
\* C13: no request is ever inside a processing call; while the 2xx response
\* of a create or trigger request is on its way the job that request made
\* has not started, and the Episode's status for the stage is pending.
C13_NoAdapterOnRequestPath ==
    /\ \A e \in EpisodeIds : metaReqs[e] = 0
    /\ (ev.kind \in {"create", "trigger"} /\ ev.code \in {200, 201, 202}) =>
          /\ Len(jobs) > 0
          /\ jobs[Len(jobs)] = ProcessingJob(ev.ep, ev.stage)
          /\ tasks[Len(jobs)].pc = "scheduled"
          /\ episodes[ev.ep][StatusField(ev.stage)] = "pending"

\* ------------------------------------------------------------------ C14
\* C14: an execution that finds its episode row missing when it starts ends
\* there: it changes no Episode row, no ProcessingJob row and no directory,
\* never enters its processing call and does not raise.  (Job rows are never
\* deleted, so the job row is always found.)
C14_MissingRowIsNoOp ==
    [][\A j \in DOMAIN tasks :
          /\ (/\ tasks[j].pc = "scheduled" /\ tasks'[j].pc # "scheduled"
              /\ ~EpisodeFound(jobs[j].episode_id)) =>
                /\ tasks'[j].pc = "noop"
                /\ UNCHANGED <<episodes, jobs, dirs>>
          /\ tasks[j].pc = "noop" => (tasks'[j].pc = "noop" /\ jobs'[j] = jobs[j])]_vars

\* An execution has ended at the lookup and its job row is as it was created.
C14_Witness ==
    \E j \in DOMAIN tasks :
        /\ tasks[j].pc = "noop"
        /\ jobs[j] = ProcessingJob(jobs[j].episode_id, jobs[j].type)
        /\ ~EpisodeFound(jobs[j].episode_id)

\* ------------------------------------------------------------------ C15
\* The step is the arrival of a get, update, delete or trigger request for
\* an id that has no Episode row.
ArrivesForMissing ==
    /\ ev' # ev
    /\ ev'.kind \in {"get", "update", "delete", "trigger"}
    /\ ~EpisodeFound(ev'.ep)
    /\ metaReqs' = metaReqs

\* C15: a successful delete leaves neither the Episode row nor the episode's
\* directory tree; a deleted id never gets a row again; and every get,
\* update, delete or trigger request for an id without a row (deleted or
\* never created) is answered 404 and changes nothing.
C15_DeletedIsNotFound ==
    [][/\ (ev' # ev /\ ev'.kind = "delete" /\ ev'.code = 204) =>
             /\ EpisodeFound(ev'.ep)
             /\ ev'.ep \notin DOMAIN episodes'
             /\ ev'.ep \notin DOMAIN dirs'
       /\ \A e \in 1..nextId : ~EpisodeFound(e) => e \notin DOMAIN episodes'
       /\ ArrivesForMissing => (ev'.code = 404 /\ UNCHANGED store)]_vars

\* An update request for a deleted episode was just answered 404, the job
\* rows of that episode still in the store.
C15_Witness ==
    /\ ev.kind = "update" /\ ev.code = 404
    /\ ev.ep <= nextId
    /\ \E j \in 1..Len(jobs) : jobs[j].episode_id = ev.ep

\* ------------------------------------------------------------------ C16
\* C16: a create request that is refused (any answer other than 201) leaves
\* no Episode row, no ProcessingJob row and no episode directory behind.
C16_RejectedIngestCreatesNothing ==
    [][(ev' # ev /\ ev'.kind = "create" /\ ev'.code # 201) =>
          (episodes' = episodes /\ jobs' = jobs /\ dirs' = dirs)]_vars

\* ------------------------------------------------------------------ C17
\* C17: in the state a create request is answered 201 in, the new Episode
\* exists with preprocess_status pending and the other four statuses init,
\* exactly one ProcessingJob row exists for it, of type preprocess and
\* pending, and its background task is scheduled and has not started.
C17_CreateSchedulesPreprocess ==
    (ev.kind = "create" /\ ev.code = 201) =>
        /\ EpisodeFound(ev.ep)
        /\ episodes[ev.ep].preprocess_status = "pending"
        /\ \A t \in OtherStages("preprocess") : episodes[ev.ep][StatusField(t)] = "init"
        /\ \E j \in 1..Len(jobs) :
              /\ jobs[j] = ProcessingJob(ev.ep, "preprocess")
              /\ \A k \in 1..Len(jobs) : jobs[k].episode_id = ev.ep => k = j
              /\ j \in DOMAIN tasks /\ tasks[j].pc = "scheduled"

\* A create request was just answered 201.
C17_Witness ==
    /\ ev.kind = "create" /\ ev.code = 201
    /\ ev.ep \in DOMAIN dirs /\ "source/files" \in dirs[ev.ep]

\* ------------------------------------------------------------------ C19
\* C19: a create request carrying a file with no file name is answered 400.
C19_NamelessFileIs400 ==
    (ev.kind = "create" /\ ev.reason = "no_file_name") => ev.code = 400

\* ------------------------------------------------------------------ C18
RECURSIVE SumSizes(_)
SumSizes(files) ==
    IF files = <<>> THEN 0 ELSE files[1].size + SumSizes(Tail(files))

\* C18: when validation of an upload whose names all pass has ended, it has
\* raised 413 if and only if the sum of the files' sizes (header value or
\* stream length) exceeds MAX_TOTAL_SIZE.
C18_OversizeIs413 ==
    (call.fn = "validate" /\ call.pc = "done" /\ call.status_code # 400) =>
        (call.status_code = 413 <=> SumSizes(call.files) > MAX_TOTAL_SIZE)

\* ------------------------------------------------------------------ C20
\* Positions of the files whose base name (extension stripped) has no "-".
HyphenFree(files) == {i \in 1..Len(files) : ~Contains(Stem(files[i]), <<"-">>)}

\* C20: resolution over a non-empty list returns a member of the list: the
\* first file in list order whose base name has no "-" when there is one,
\* else the first file of the list; a.wav, a-1.wav, a-2.wav resolve to
\* a.wav in every order.
C20_CombinedFileResolution ==
    (call.fn = "_get_combined_file" /\ call.pc = "done") =>
        LET files == call.files
            free == HyphenFree(files)
        IN /\ \E i \in 1..Len(files) : call.returned = files[i]
           /\ free # {} =>
                \E i \in free : call.returned = files[i] /\ \A k \in free : i <= k
           /\ free = {} => call.returned = files[1]
           /\ {files[i] : i \in 1..Len(files)} =
                 {<<"a", ".", "w", "a", "v">>, <<"a", "-", "1", ".", "w", "a", "v">>,
                  <<"a", "-", "2", ".", "w", "a", "v">>}
                 => call.returned = <<"a", ".", "w", "a", "v">>

\* A list that starts with two hyphenated names and holds two hyphen-free
\* ones has been resolved.
C20_Witness ==
    /\ call.fn = "_get_combined_file" /\ call.pc = "done"
    /\ Len(call.files) = 3
    /\ HyphenFree(call.files) = {2, 3}
    /\ call.files[2] # call.files[3]

\* ------------------------------------------------------------------ C21
\* C21: when the episode exists and its preprocess status is completed, a
\* request for a preprocessed audio file whose name contains "..", "/" or
\* "\" is answered 400, and the handler has looked at no path (no existence
\* test, no read) by then.
C21_UnsafeNameRejectedBeforeAccess ==
    (/\ ev.kind = "read" /\ ev.route = "audio"
     /\ EpisodeFound(ev.ep)
     /\ episodes[ev.ep].preprocess_status = "completed"
     /\ \/ Contains(ev.name, <<".", ".">>)
        \/ Contains(ev.name, <<"/">>)
        \/ Contains(ev.name, <<"\\">>))
       => (ev.code = 400 /\ ev.fs = {} /\ ev.body = {})

\* A name that leads out of preprocessed/ to a file that exists was just
\* refused.
C21_Witness ==
    /\ ev.kind = "read" /\ ev.route = "audio"
    /\ EpisodeFound(ev.ep)
    /\ episodes[ev.ep].preprocess_status = "completed"
    /\ Contains(ev.name, <<".", ".">>)
    /\ PreprocessedPath(ev.name) \in Tree(dirs, ev.ep)
    /\ ev.code = 400

\* ------------------------------------------------------------------ C22
\* The stage each artifact route is gated on.
RouteStage(route) ==
    CASE route \in {"audios", "audio", "srt"} -> "preprocess"
      [] route = "edited-audio" -> "edit"
      [] route \in {"postprocessed-audio", "annotated-srt"} -> "postprocess"
      [] route \in {"metadata-audio", "chapters", "show-notes"} -> "metadata"
      [] route = "export" -> "export"

\* C22: every artifact read route answers 404 for an episode that does not
\* exist, and 400 for an episode whose status for the route's stage is not
\* completed; in both cases it serves nothing.
C22_ReadsAreGated ==
    ev.kind = "read" =>
        /\ ~EpisodeFound(ev.ep) => (ev.code = 404 /\ ev.body = {} /\ ev.content = <<>>)
        /\ (/\ EpisodeFound(ev.ep)
            /\ episodes[ev.ep][StatusField(RouteStage(ev.route))] # "completed")
              => (ev.code = 400 /\ ev.body = {} /\ ev.content = <<>>)

\* The postprocessed audio was just refused with 400 although the file is
\* there (the stage was triggered again after it had completed).
C22_Witness ==
    /\ ev.kind = "read" /\ ev.route = "postprocessed-audio" /\ ev.code = 400
    /\ "postprocessed/wav" \in Tree(dirs, ev.ep)

\* ------------------------------------------------------------------ C23
\* The five status columns of an Episode row.
Statuses(row) == [t \in JobTypes |-> row[StatusField(t)]]

C24_ExportLeavesOneArchive ==
    [][\A j \in DOMAIN tasks :
          (/\ jobs[j].type = "export"
           /\ jobs[j].status = "processing" /\ jobs'[j].status = "completed") =>
             Tree(dirs', jobs[j].episode_id) \cap ZipPaths = {ZipPath(tasks[j].title)}]_vars

\* ------------------------------------------------------------------ C25
\* C25: in the state the update of the annotated transcript is answered 200
\* in, with content C, reading the annotated transcript answers 200 with
\* exactly C (the episode has its postprocess status completed and a
\* combined transcript, or the update would not have been answered 200).
C25_AnnotatedSrtRoundTrip ==
    (ev.kind = "write" /\ ev.code = 200) =>
        LET r == AnnotatedSrt(Tree(dirs, ev.ep), srt[ev.ep])
        IN r.code = 200 /\ r.content = ev.content

\* ------------------------------------------------------------------ C26
\* An execution has left its function: at the lookup of a missing row, by
\* returning after the finally block, or with the exception that the commit
\* in the finally block raised.
Ended(j) == tasks[j].pc \in {"noop", "returned", "raised"}

\* C26: every stage execution that has ended, on whatever path, has closed
\* the session it worked on.
C26_SessionClosedOnEveryExit ==
    \A j \in DOMAIN tasks : Ended(j) => tasks[j].closed

\* ------------------------------------------------------------------ C27
\* C27: the session a stage execution works on is never the session of the
\* request that scheduled it.
C27_ExecutionHasItsOwnSession ==
    \A j \in DOMAIN tasks : tasks[j].session # "request"

\* ------------------------------------------------------------------ C28
Max(a, b) == IF a >= b THEN a ELSE b

\* C28: a listing with offset o and limit l that passes the validation of
\* its parameters answers 200 with min(l, max(0, n - o)) episodes of the n in
\* the store, those at positions o .. o+l-1 of the store order (none when the
\* store is empty).
C28_ListingIsTheWindow ==
    (ev.kind = "list" /\ ev.code # 422) =>
        LET n == Cardinality(DOMAIN episodes)
        IN /\ ev.code = 200
           /\ Len(ev.items) = Min(ev.limit, Max(0, n - ev.offset))
           /\ \A i \in 1..Len(ev.items) : ev.items[i] = StoreOrder[ev.offset + i]
           /\ n = 0 => ev.items = <<>>

\* ------------------------------------------------------------------ C29
\* C29: a job whose execution has ended is completed or failed (no step
\* other than those of its own execution writes a job row, so a job that is
\* not terminal by then never becomes terminal).
C29_EveryJobEndsTerminal ==
    \A j \in DOMAIN tasks : Ended(j) => jobs[j].status \in Terminal

\* ------------------------------------------------------------------ C30
\* C30: a trigger request for stage t of an existing episode whose preceding
\* stage is completed is accepted whatever the status of stage t is, and
\* each such request adds one new ProcessingJob row of that stage and
\* schedules one new execution for it (so k of them add k rows and k
\* executions).
C30_TriggerNotIdempotent ==
    [][\A e \in EpisodeIds, t \in GatedStages :
          (/\ Arrives(e, t)
           /\ EpisodeFound(e)
           /\ episodes[e][StatusField(PrecedingStage(t))] = "completed") =>
             /\ Len(jobs') = Len(jobs) + 1
             /\ jobs'[Len(jobs')] = ProcessingJob(e, t)
             /\ DOMAIN tasks' = DOMAIN tasks \cup {Len(jobs')}
             /\ tasks'[Len(jobs')].pc = "scheduled"
             /\ ev'.code \in {200, 202}]_vars

\* ------------------------------------------------------------------ C31
\* C31: in every reachable state, for every episode and every stage other
\* than preprocess, a status other than init for that stage comes with the
\* status completed for the stage immediately before it.
C31_PipelineOrder ==
    \A e \in DOMAIN episodes, t \in GatedStages :
        episodes[e][StatusField(t)] # "init" =>
            episodes[e][StatusField(PrecedingStage(t))] = "completed"

\* ------------------------------------------------------------------ C32
Live == {"pending", "processing"}

\* C32: in every reachable state, an Episode whose status for a stage is
\* pending or processing has a ProcessingJob row of that episode and stage
\* whose status is pending or processing.
C32_WaitingStageHasLiveJob ==
    \A e \in DOMAIN episodes, t \in JobTypes :
        episodes[e][StatusField(t)] \in Live =>
            \E j \in 1..Len(jobs) :
                jobs[j].episode_id = e /\ jobs[j].type = t /\ jobs[j].status \in Live

\* ------------------------------------------------------------------ C33
\* The ids of the ProcessingJob rows of episode e and stage t.
JobsOf(e, t) == {j \in 1..Len(jobs) : jobs[j].episode_id = e /\ jobs[j].type = t}

\* The most recently created of a non-empty set of job rows (ids are
\* assigned in order of creation).
Latest(J) == CHOOSE j \in J : \A k \in J : k <= j

\* C33: in every state in which an (episode, stage) has job rows and none of
\* them is pending or processing, the Episode's status for the stage is the
\* status of the most recently created of them.
C33_EpisodeAgreesWithJobLog ==
    \A e \in DOMAIN episodes, t \in JobTypes :
        (JobsOf(e, t) # {} /\ \A j \in JobsOf(e, t) : jobs[j].status \notin Live) =>
            episodes[e][StatusField(t)] = jobs[Latest(JobsOf(e, t))].status

\* ------------------------------------------------------------------ C34
\* C34: an episode id whose delete has succeeded (the id was generated and
\* has no row; a deleted id never gets a row again) has no directory tree,
\* in this and every later state, whatever the executions dispatched for it
\* before the delete do.
C34_DeletedTreeStaysGone ==
    \A e \in 1..nextId : ~EpisodeFound(e) => e \notin DOMAIN dirs

\* ------------------------------------------------------------------ C35
\* C35: in every reachable state in which an Episode's export status is
\* completed, the episode's tree holds export/ and exactly one archive in it
\* (what a download needs to be answered 200), also while a second export
\* of the episode is under way.
C35_CompletedExportHasOneArchive ==
    \A e \in DOMAIN episodes :
        episodes[e].export_status = "completed" =>
            /\ "export/" \in Tree(dirs, e)
            /\ Cardinality(Tree(dirs, e) \cap ZipPaths) = 1

\* ------------------------------------------------------------------ C36
\* C36: a delete that succeeds removes and changes no ProcessingJob row (the
\* rows of the deleted episode stay, status and error_message as they were)
\* and leaves the Episode row and the directory tree of every other episode
\* as they were.
C36_DeleteOrphansJobs ==
    [][(ev'.kind = "delete" /\ ev'.code = 204) =>
          /\ jobs' = jobs
          /\ DOMAIN episodes' = DOMAIN episodes \ {ev'.ep}
          /\ \A o \in DOMAIN episodes' : episodes'[o] = episodes[o]
          /\ \A o \in (DOMAIN dirs \cup DOMAIN dirs') \ {ev'.ep} :
                Tree(dirs', o) = Tree(dirs, o) /\ (o \in DOMAIN dirs' <=> o \in DOMAIN dirs)]_vars

\* An episode with a failed job was just deleted while another episode has a
\* row, a tree and a job of its own.
C36_Witness ==
    /\ ev.kind = "delete" /\ ev.code = 204
    /\ \E j \in 1..Len(jobs) : jobs[j].episode_id = ev.ep /\ jobs[j].status = "failed"
    /\ \E o \in DOMAIN episodes \cap DOMAIN dirs :
          /\ o # ev.ep
          /\ \E k \in 1..Len(jobs) : jobs[k].episode_id = o

\* ------------------------------------------------------------------ C37
\* C37: on every non-empty list, _get_combined_file, _get_combined_srt_or_404,
\* the loop of get_postprocessed_audio and the loop of
\* generate_episode_metadata, given the list in the same order, return the
\* same file (the same position of the list).
C37_CopiesAgree ==
    (/\ call.fn = "copies" /\ call.pc = "done"
     /\ call.combined_srt # 0 /\ call.combined_audio # 0 /\ call.audio_file # 0) =>
        /\ call.combined_srt = call.combined_file
        /\ call.combined_audio = call.combined_file
        /\ call.audio_file = call.combined_file
        /\ call.returned = call.files[call.combined_srt]

\* The four copies have run on a list that starts with a hyphenated name and
\* holds two different hyphen-free names after it.
C37_Witness ==
    /\ call.fn = "copies" /\ call.pc = "done"
    /\ call.combined_srt # 0 /\ call.combined_audio # 0 /\ call.audio_file # 0
    /\ Len(call.files) = 3
    /\ HyphenFree(call.files) = {2, 3}
    /\ call.files[2] # call.files[3]

\* ------------------------------------------------------------------ C38
\* C38: when an edit execution whose episode row is still there ends and
\* neither preprocessed/ nor edited/ held a .wav (so edited/ holds none
\* after the copy), the combine call was not made whatever it would have
\* done, no combined file was written, the job is failed with the message of
\* the failure, the Episode's edit status is failed and its other four
\* statuses are as before.
C38_NoAudioFailsEdit ==
    [][\A j \in DOMAIN tasks :
          (/\ tasks[j].pc = "adapter" /\ tasks'[j].pc = "returned"
           /\ jobs[j].type = "edit"
           /\ "preprocessed/wav" \notin Tree(dirs, jobs[j].episode_id)
           /\ "edited/wav" \notin Tree(dirs, jobs[j].episode_id)) =>
             LET e == jobs[j].episode_id IN
             /\ \A out \in Outcomes("edit") : ~TryBlock("edit", Tree(dirs, e), out, None).called
             /\ "edited-combined.wav" \in Tree(dirs', e) <=> "edited-combined.wav" \in Tree(dirs, e)
             /\ jobs'[j].status = "failed"
             /\ jobs'[j].error_message = "No audio files found"
             /\ episodes'[e].edit_status = "failed"
             /\ \A u \in OtherStages("edit") :
                   episodes'[e][StatusField(u)] = episodes[e][StatusField(u)]]_vars

\* An edit execution has ended on an episode whose preprocessing completed
\* without leaving a .wav: its job carries the message.
C38_Witness ==
    \E j \in DOMAIN tasks :
        /\ tasks[j].pc = "returned" /\ jobs[j].type = "edit"
        /\ jobs[j].status = "failed" /\ jobs[j].error_message = "No audio files found"
        /\ EpisodeFound(jobs[j].episode_id)
        /\ episodes[jobs[j].episode_id].preprocess_status = "completed"
        /\ episodes[jobs[j].episode_id].edit_status = "failed"
        /\ "edited/wav" \notin Tree(dirs, jobs[j].episode_id)

\* ------------------------------------------------------------------ C39
\* C39: the answer of get_audio_file is that of the first check that fails,
\* in this order: no Episode row -> 404; preprocess status not completed ->
\* 400; file name containing "..", "/" or "\" -> 400; no such file -> 404;
\* else 200.  In the first three cases no path was built or looked at.
C39_AudioFileCheckOrder ==
    (ev.kind = "read" /\ ev.route = "audio") =>
        IF ~EpisodeFound(ev.ep)
        THEN ev.code = 404 /\ ev.reason = "Episode not found" /\ ev.fs = {}
        ELSE IF episodes[ev.ep].preprocess_status # "completed"
        THEN ev.code = 400 /\ ev.reason = "not completed" /\ ev.fs = {}
        ELSE IF \/ Contains(ev.name, <<".", ".">>)
                \/ Contains(ev.name, <<"/">>)
                \/ Contains(ev.name, <<"\\">>)
        THEN ev.code = 400 /\ ev.reason = "Invalid file name" /\ ev.fs = {}
        ELSE IF PreprocessedPath(ev.name) \notin Tree(dirs, ev.ep)
        THEN ev.code = 404 /\ ev.reason = "Audio file not found" /\ ev.body = {}
        ELSE ev.code = 200 /\ ev.body = {PreprocessedPath(ev.name)}

\* A name that leads out of preprocessed/ was just refused for an episode
\* whose preprocessing is still running, on the ground of the status.
C39_Witness ==
    /\ ev.kind = "read" /\ ev.route = "audio"
    /\ Contains(ev.name, <<"/">>)
    /\ EpisodeFound(ev.ep)
    /\ episodes[ev.ep].preprocess_status = "processing"
    /\ ev.code = 400 /\ ev.reason = "not completed"

\* ------------------------------------------------------------------ C40
\* A file name the first loop refuses: missing or empty, containing "..",
\* "/" or "\", starting with ".", or with an extension outside the
\* allow-list (compared in lower case).
Refused(filename) ==
    \/ filename = <<>>
    \/ Contains(filename, <<".", ".">>)
    \/ Contains(filename, <<"/">>)
    \/ Contains(filename, <<"\\">>)
    \/ filename[1] = "."
    \/ Lower(Suffix(filename)) \notin
          {<<".", "w", "a", "v">>, <<".", "m", "4", "a">>,
           <<".", "a", "i", "f", "c">>, <<".", "m", "p", "4">>}

\* C40: when validation of an upload in which some file has a refused name
\* has ended, it has raised 400 and has accounted for no size, whatever the
\* sizes of the files are and wherever in the upload that file is.
C40_NamesBeforeSizes ==
    (/\ call.fn = "validate" /\ call.pc = "done"
     /\ \E i \in 1..Len(call.files) : Refused(call.files[i].filename)) =>
        (call.status_code = 400 /\ call.total_size = 0)

\* Validation has ended for an upload whose first file is well named, has no
\* content-length header and is over the ceiling by itself, and whose second
\* file has a refused name.
C40_Witness ==
    /\ call.fn = "validate" /\ call.pc = "done"
    /\ Len(call.files) = 2
    /\ ~Refused(call.files[1].filename)
    /\ ~call.files[1].has_length /\ call.files[1].size > MAX_TOTAL_SIZE
    /\ Refused(call.files[2].filename)
    /\ call.status_code = 400

====
